---- MODULE Spec2Model ----
(***************************************************************************)
(* hmd, the home deploy tool: the operator's actions (deploy, restart,     *)
(* stop, remove, status, log), the remote command lines they compose, and  *)
(* the detached pipeline script those command lines launch.                *)
(*                                                                         *)
(* One operator issues one action at a time against one project.  Local    *)
(* and remote commands are steps of the action; a launched pipeline script *)
(* is a process of its own that interleaves with the operator's steps.     *)
(* A stage command is an opaque simple command that ends with success or   *)
(* failure; script.sh (the run/complete/panic hooks) is not part of the    *)
(* sources and is modelled from its contract.                              *)
(***************************************************************************)
EXTENDS Integers, Sequences, FiniteSets, TLC

\* ------------------------------------------------------------- bounds
MaxLaunches == 2    \* pipeline launches (pids handed out) in one behaviour
MaxHistory  == 3    \* commits the local branch may reach; a dirty deploy adds two
MaxAttempts == 2    \* turns of one kill-and-wait loop after which a child that
                    \* was signalled already is not signalled once more

\* ------------------------------------------------------------- values
NoPid == 0

\* a file that does not exist, where a compiled script is expected
NoFile == [ preamble |-> "no_file", stages |-> <<>>, pipeline |-> <<>> ]

\* a repository or work tree that holds no commit
NoRev == <<>>

\* stage names are strings whose characters matter: sequences of tokens, a
\* token being a blank or a run of other characters
StageNames == { <<"build">>, <<"run">> }

\* the keys a descriptor can hold besides: any string is a YAML key
DescriptorStageNames == StageNames \cup { <<"unit", " ", "test">> }

Pids == 1..MaxLaunches

\* the ordered stage maps a descriptor can hold: keys are unique (IndexMap),
\* read_hmd_yml refuses an empty one
StageLists ==
  { s \in UNION { [1..n -> StageNames] : n \in 1..Cardinality(StageNames) } :
      \A a, b \in 1..Len(s) : a # b => s[a] # s[b] }

\* the stage maps of descriptors with any keys
DescriptorStageLists ==
  { s \in UNION { [1..n -> DescriptorStageNames] : n \in 1..2 } :
      \A a, b \in 1..Len(s) : a # b => s[a] # s[b] }

\* the command text of a stage, opaque
CmdOf(stage) == <<"sh", stage>>

\* ------------------------------------------------- project and address

\* Option<T> / io::Result<T>, as records of one shape
None(v) == [ some |-> FALSE, v |-> v ]
Some(v) == [ some |-> TRUE,  v |-> v ]

\* or_else: the first of two options that holds a value
or_else(a, b) == IF a.some THEN a ELSE b

\* strings whose characters matter are sequences of tokens: a token is a
\* separator ("/", " "), a dot, or a run of other characters
HMD_ROOT == <<"~", "/", ".hmd">>

PROJECT_NOT_PROVIDED == "Project not provided"

SSH_ADDRESS_NOT_PROVIDED == "SSH address not provided"

\* the project names an operator can give: -p, the descriptor's project
\* field, the name of the working directory
ProjectNames == { <<"a">>, <<"b">>, <<"a", "/">>, <<".", "/", "a">> }

Addresses == { "given", "local", "global" }

Commands == { "Init", "Deploy", "Stop", "Restart", "Status", "Log", "List",
              "Remove" }

\* hmd.yml as the working directory holds it.  The fields are read only
\* when the file exists and parses.
HmdYmlFiles ==
  [ exists : BOOLEAN, parses : BOOLEAN, project : {<<>>, <<"a">>, <<"b">>},
    ssh_address : {"local"}, artifacts : {<<>>, <<"bin">>},
    stages : {<<>>, << <<"build">> >>} ]

\* HmdYml::default(): no project, no address, no artifact, four cargo stages
HmdYml_default ==
  [ exists |-> FALSE, parses |-> TRUE, project |-> <<>>, ssh_address |-> "",
    artifacts |-> <<>>,
    stages |-> << <<"lint">>, <<"test">>, <<"build">>, <<"run">> >> ]

\* read_hmd_yml: the descriptor, or an error when the file is missing, does
\* not parse, has an empty project or has no stage
read_hmd_yml(file) ==
  IF file.exists /\ file.parses /\ file.project # <<>> /\ file.stages # <<>>
    THEN Some(file) ELSE None(file)

\* read_hmd_config_yml: ~/.hmd/config.yml, an option of its ssh_address
read_hmd_config_yml(config) == config

\* get_project: --project, else the descriptor's project
get_project(project, file) ==
  LET yml == read_hmd_yml(file) IN
  or_else(project, IF yml.some THEN Some(yml.v.project) ELSE None(<<>>))

\* a resolver that asks the global configuration before the descriptor
get_ssh_address_GlobalFirst(ssh_address, file, config) ==
  LET yml == read_hmd_yml(file)
      cfg == read_hmd_config_yml(config)
  IN or_else(or_else(ssh_address,
                     IF cfg.some THEN Some(cfg.v) ELSE None("")),
             IF yml.some THEN Some(yml.v.ssh_address) ELSE None(""))

\* get_ssh_address: --ssh, else the descriptor's, else the global config's
get_ssh_address(ssh_address, file, config) ==
  LET yml == read_hmd_yml(file)
      cfg == read_hmd_config_yml(config)
  IN or_else(or_else(ssh_address,
                     IF yml.some THEN Some(yml.v.ssh_address) ELSE None("")),
             IF cfg.some THEN Some(cfg.v) ELSE None(""))

\* write_hmd_yml: the descriptor read_hmd_yml gives, or the default one when
\* it gives an error, with the two fields replaced; serialised, the struct is
\* a file that exists and parses, with the artifacts and the stage entries in
\* the struct's order
write_hmd_yml(project, ssh_address, file) ==
  LET yml  == read_hmd_yml(file)
      base == IF yml.some THEN yml.v ELSE HmdYml_default
  IN [ exists |-> TRUE, parses |-> TRUE, project |-> project,
       ssh_address |-> ssh_address, artifacts |-> base.artifacts,
       stages |-> base.stages ]

\* Env::new and the paths Env derives: format! is concatenation
Env_new(project, ssh_address) ==
  LET dir == HMD_ROOT \o <<"/">> \o project IN
  [ project     |-> project,
    ssh_address |-> ssh_address,
    project_dir |-> dir,
    git_dir     |-> dir \o <<"/", "git">>,
    work_tree   |-> dir \o <<"/", "work-tree">> ]

out_log_path(env) == env.work_tree \o <<"/", "out.log">>

status_log_path(env) == env.work_tree \o <<"/", "status.log">>

pipeline_pid_path(env) == env.work_tree \o <<"/", "pipeline.pid">>

\* the file a path names on the server: its segments between "/", where an
\* empty segment ("a//b", "a/") and a "." segment name nothing
RECURSIVE Segments(_, _)
Segments(path, segment) ==
  LET done == IF segment \in {<<>>, <<".">>} THEN <<>> ELSE <<segment>> IN
  IF path = <<>> THEN done
  ELSE IF Head(path) = "/" THEN done \o Segments(Tail(path), <<>>)
  ELSE Segments(Tail(path), Append(segment, Head(path)))

FileOf(path) == Segments(path, <<>>)

\* the remote layout of a project: the paths every command works on
Layout(env) ==
  { env.git_dir, env.work_tree, pipeline_pid_path(env), out_log_path(env),
    status_log_path(env) }

\* what launch() hands to the command's function, or the error it returns
\* before anything is done
Resolved(project, ssh_address, error) ==
  [ ok |-> error = "", error |-> error,
    env |-> Env_new(project, ssh_address) ]

NotResolved == Resolved(<<>>, "", "not launched")

\* launch(): the match arm of each command up to the call it ends with
launch_env(inv) ==
  LET file    == inv.hmd_yml
      yml     == read_hmd_yml(file)
      address == get_ssh_address(inv.ssh_address, file, inv.config)
      With(project) ==
        IF ~project.some THEN Resolved(<<>>, "", PROJECT_NOT_PROVIDED)
        ELSE IF ~address.some THEN Resolved(<<>>, "", SSH_ADDRESS_NOT_PROVIDED)
        ELSE Resolved(project.v, address.v, "")
  IN CASE inv.command = "Init" ->
            With(or_else(get_project(inv.project, file), inv.current_dir))
       [] inv.command = "Deploy" ->
            IF yml.some THEN Resolved(yml.v.project, yml.v.ssh_address, "")
                        ELSE Resolved(<<>>, "", "hmd.yml")
       [] inv.command \in {"Stop", "Restart", "Status", "Log"} ->
            With(get_project(inv.project, file))
       [] inv.command = "List" ->
            IF address.some THEN Resolved(<<>>, address.v, "")
                            ELSE Resolved(<<>>, "", SSH_ADDRESS_NOT_PROVIDED)
       [] inv.command = "Remove" ->
            With(inv.project)

\* the first launch of a behaviour of the pipeline's lifecycle: hmd deploy in
\* the directory of project a, whose descriptor names the server
DeployInvocation ==
  [ command     |-> "Deploy",
    project     |-> None(<<>>),
    ssh_address |-> None(""),
    hmd_yml     |-> [ exists |-> TRUE, parses |-> TRUE, project |-> <<"a">>,
                      ssh_address |-> "local", artifacts |-> <<>>,
                      stages |-> << <<"build">> >> ],
    config      |-> None(""),
    current_dir |-> Some(<<"b">>) ]

\* the invocations: a command, its --project and --ssh options, and what it
\* finds on the operator's machine
Invocations ==
  [ command     : Commands,
    project     : {None(<<>>)} \cup { Some(n) : n \in ProjectNames },
    ssh_address : {None(""), Some("given")},
    hmd_yml     : HmdYmlFiles,
    config      : {None(""), Some("global")},
    current_dir : {None(<<>>), Some(<<"b">>)} ]

VARIABLES
  hmd_yml,       \* the local descriptor's stage map, in file order
  history,       \* commits of the local branch, oldest first; HEAD is the last
  local_sh,      \* pipeline.sh in the local working directory, or NoFile
  action,        \* the operator's current (or last) action
  dirty,         \* deploy --dirty
  pc,            \* the action's position: a step name, "idle" or "done"
  result,        \* how the last action ended: "none", "ok", "failed", "interrupted"
  error,         \* the step whose failure the action reported
  push_result,   \* git_push_dirty's latched push result
  steps,         \* the steps the current action has finished: <<step, ok>>
  before,        \* local history and pid file when the current action began,
                 \* and whether it is a Stop begun right after a Stop that succeeded
  attempts,      \* signal attempts of the current kill-and-wait loop
  git_dir,       \* the remote bare repository: the pushed history
  work_tree,     \* the remote work tree: [rev, pipeline_sh]
  project_dir,   \* whether <root>/<project> exists on the server
  log_writable,  \* whether the server lets status.log be written
  pipeline_pid,  \* content of the pid file, NoPid when there is none
  status_log,    \* status.log: <<pid, entry, index>>, appended
  out_log,       \* out.log: the pid whose output it was truncated for
  procs,         \* the pipeline script processes, by pid
  trace,         \* what each script process did, in order
  next_pid,      \* the pid the next launch gets
  invocation,    \* the command line and local files of the last launch()
  resolved       \* the project, address and paths launch() resolved

cli_vars    == <<invocation, resolved>>
local_vars  == <<cli_vars, hmd_yml, history, local_sh>>
op_vars     == <<action, dirty, pc, result, error, push_result, steps, before,
                 attempts>>
remote_vars == <<git_dir, work_tree, project_dir, log_writable, pipeline_pid,
                 status_log, out_log>>
proc_vars   == <<procs, trace, next_pid>>
vars == <<local_vars, op_vars, remote_vars, proc_vars>>

\* ------------------------------------------------- pipeline compiler

\* a compiler that emits the blocks last stage first
stage_commands_Reversed(stages) ==
  [ k \in 1..Len(stages) |->
      [ i |-> k - 1, stage |-> stages[Len(stages) + 1 - k],
        cmd |-> CmdOf(stages[Len(stages) + 1 - k]) ] ]

\* one block per stage, at its position, with the stage's index
stage_commands(stages) ==
  [ k \in 1..Len(stages) |->
      [ i |-> k - 1, stage |-> stages[k], cmd |-> CmdOf(stages[k]) ] ]

\* Vec::join(" "): the strings with one blank between neighbours
RECURSIVE join(_)
join(strings) ==
  IF strings = <<>> THEN <<>>
  ELSE IF Len(strings) = 1 THEN strings[1]
  ELSE strings[1] \o <<" ">> \o join(Tail(strings))

\* the script body: preamble, `stages=({stages});` with the keys joined by
\* blanks, blocks
generate_pipeline_sh(stages) ==
  [ preamble |-> "script.sh",
    stages   |-> join([ k \in 1..Len(stages) |-> stages[k] ]),
    pipeline |-> stage_commands(stages) ]

\* bash reading `stages=(...)`: the words between blanks are the elements
RECURSIVE Words(_, _)
Words(text, word) ==
  LET done == IF word = <<>> THEN <<>> ELSE <<word>> IN
  IF text = <<>> THEN done
  ELSE IF Head(text) = " " THEN done \o Words(Tail(text), <<>>)
  ELSE Words(Tail(text), Append(word, Head(text)))

\* ${stages[@]} as the hooks of the script see it
StagesArray(script) == Words(script.stages, <<>>)

\* a block whose chain has no `|| { ... }` branch
BlockNext_NoPanic(step, ok) ==
  CASE step = "run"      -> "cmd"
    [] step = "cmd"      -> "complete"
    [] step = "complete" -> "end"

\* a block that starts the command whatever `run {i}` returned
BlockNext_RunIgnored(step, ok) ==
  IF step = "run" THEN "cmd"
  ELSE IF ~ok THEN "panic"
  ELSE CASE step = "cmd"      -> "complete"
         [] step = "complete" -> "end"

\* run {i} && {cmd} && complete {i} || { ...; panic {i}; exit 1; }; echo End:
\* where the block goes after `step` ended with `ok`
BlockNext(step, ok) ==
  IF ~ok THEN "panic"
  ELSE CASE step = "run"      -> "cmd"
         [] step = "cmd"      -> "complete"
         [] step = "complete" -> "end"

\* { echo Failed; panic {i}; exit 1; }: the exit status after panic returned
PanicExit == 1

\* ------------------------------------------------- pipeline runtime

NoProc == [ live |-> FALSE, script |-> NoFile, block |-> 0, pc |-> "none",
            child |-> "none", exit |-> -1 ]

LivePids == { p \in Pids : procs[p].live }

Block(p) == procs[p].script.pipeline[procs[p].block]

\* the hooks of script.sh: an entry appended to the status log; the hook
\* fails when the log cannot be written
Hook(p, entry, i, ok) ==
  status_log' = IF ok THEN Append(status_log, <<p, entry, i>>) ELSE status_log

\* status.log can be appended to: the work tree exists and the file is writable
CanLog == project_dir /\ log_writable

\* after a block's chain succeeded: the next block, or the end of the script
Advance(p) ==
  IF procs[p].block < Len(procs[p].script.pipeline)
    THEN [procs[p] EXCEPT !.block = @ + 1, !.pc = "run"]
    ELSE [procs[p] EXCEPT !.live = FALSE, !.pc = "none", !.exit = 0]

Goto(p, step, ok) ==
  IF BlockNext(step, ok) = "end" THEN Advance(p)
  ELSE [procs[p] EXCEPT !.pc = BlockNext(step, ok)]

\* echo Start; run {i} && {cmd}: the hook, then the stage command starts as
\* a child of the script
ScriptRun(p) ==
  /\ procs[p].live /\ procs[p].pc = "run"
  /\ LET ok  == CanLog
         to  == BlockNext("run", ok)
         evs == << <<"started", Block(p).i>> >> \o
                (IF to = "cmd" THEN << <<"cmd", Block(p).cmd>> >> ELSE <<>>)
     IN /\ Hook(p, "started", Block(p).i, ok)
        /\ trace' = [trace EXCEPT ![p] = @ \o evs]
        /\ procs' = [procs EXCEPT ![p] =
                       IF to = "cmd" THEN [@ EXCEPT !.pc = "cmd", !.child = "running"]
                                     ELSE Goto(p, "run", ok)]
  /\ UNCHANGED <<local_vars, op_vars, next_pid,
                 git_dir, work_tree, project_dir, log_writable, pipeline_pid, out_log>>

ChildEnds(p, ok) ==
  /\ procs' = [procs EXCEPT ![p] = [Goto(p, "cmd", ok) EXCEPT !.child = "none"]]
  /\ trace' = [trace EXCEPT ![p] =
                 Append(@, <<IF ok THEN "cmd_ok" ELSE "cmd_failed", Block(p).i>>)]
  /\ UNCHANGED <<local_vars, op_vars, remote_vars, next_pid>>

\* the stage command ends by itself
ChildExit(p) ==
  /\ procs[p].live /\ procs[p].child = "running"
  /\ \E ok \in BOOLEAN : ChildEnds(p, ok)

\* the stage command ends after an interrupt: killed (failure), or it
\* handles the signal and leaves with whatever status it chooses
SignalledChildExit(p) ==
  /\ procs[p].live /\ procs[p].child = "signalled"
  /\ \E ok \in BOOLEAN : ChildEnds(p, ok)

\* complete {i}; echo End; then the next block, or the end of the file
ScriptComplete(p) ==
  /\ procs[p].live /\ procs[p].pc = "complete"
  /\ LET ok == CanLog IN
       /\ Hook(p, "completed", Block(p).i, ok)
       /\ trace' = [trace EXCEPT ![p] =
                      @ \o << <<"completed", Block(p).i>> >> \o
                      (IF ok THEN << <<"end", Block(p).i>> >> ELSE <<>>)]
       /\ procs' = [procs EXCEPT ![p] = Goto(p, "complete", ok)]
  /\ UNCHANGED <<local_vars, op_vars, next_pid,
                 git_dir, work_tree, project_dir, log_writable, pipeline_pid, out_log>>

\* || { echo Failed; panic {i}; exit 1; }
ScriptPanic(p) ==
  /\ procs[p].live /\ procs[p].pc = "panic"
  /\ Hook(p, "failed", Block(p).i, CanLog)
  /\ trace' = [trace EXCEPT ![p] =
                 @ \o << <<"failed", Block(p).i>>, <<"exit", PanicExit>> >>]
  /\ procs' = [procs EXCEPT ![p] = [@ EXCEPT !.live = FALSE, !.pc = "none",
                                             !.exit = PanicExit]]
  /\ UNCHANGED <<local_vars, op_vars, next_pid,
                 git_dir, work_tree, project_dir, log_writable, pipeline_pid, out_log>>

ScriptStep(p) ==
  \/ ScriptRun(p)
  \/ ScriptComplete(p)
  \/ ScriptPanic(p)

\* ------------------------------------------------- the operator's actions

Idle == pc \in {"idle", "done"}

Begin(a, d, first) ==
  /\ Idle
  /\ action' = a /\ dirty' = d /\ pc' = first
  /\ result' = "none" /\ error' = "none" /\ push_result' = "none"
  /\ steps' = <<>>
  /\ before' = [ history |-> history, pipeline_pid |-> pipeline_pid,
                 after_stop |-> (a = "Stop" /\ action = "Stop" /\ result = "ok") ]
  /\ attempts' = 0

Did(step, ok) == steps' = Append(steps, <<step, ok>>)

\* the action returns Ok(())
Succeed == pc' = "done" /\ result' = "ok" /\ error' = "none"

\* `?` on an Err: the action returns the step's error
Fail(step) == pc' = "done" /\ result' = "failed" /\ error' = step

\* a caller that drops the result instead of returning it with `?`
exec_verbose_Dropped(step, ok, next) ==
  /\ Did(step, ok)
  /\ pc' = next /\ UNCHANGED <<result, error>>

\* exec_verbose: Ok iff the command ran and ended with status zero
exec_verbose(step, ok, next) ==
  /\ Did(step, ok)
  /\ IF ok THEN pc' = next /\ UNCHANGED <<result, error>> ELSE Fail(step)

\* git reset HEAD~1 needs a parent commit
HasParent == Len(history) >= 2

\* a reset that moves nothing
DropHead_Kept(h) == h

DropHead(h) == SubSeq(h, 1, Len(h) - 1)

\* launch(): Command::Deploy { dirty }
StartDeploy(d) ==
  /\ next_pid <= MaxLaunches
  /\ d => Len(history) + 2 <= MaxHistory
  /\ Begin("Deploy", d, IF d THEN "git_commit_staged" ELSE "git_push")
  /\ UNCHANGED <<local_vars, remote_vars, proc_vars>>

\* git commit -m staged --allow-empty
git_commit_staged ==
  /\ pc = "git_commit_staged"
  /\ \E ok \in BOOLEAN :
       /\ exec_verbose("git_commit_staged", ok, "git_commit_unstaged")
       /\ history' = IF ok THEN Append(history, "staged") ELSE history
  /\ UNCHANGED <<cli_vars, hmd_yml, local_sh, action, dirty, push_result, before,
                 attempts, remote_vars, proc_vars>>

\* git add . ; git commit -m unstaged --allow-empty
git_commit_unstaged ==
  /\ pc = "git_commit_unstaged"
  /\ \E out \in {"add_failed", "commit_failed", "ok"} :
       /\ steps' = IF out = "add_failed"
                     THEN Append(steps, <<"git_add", FALSE>>)
                     ELSE steps \o << <<"git_add", TRUE>>,
                                      <<"git_commit_unstaged", out = "ok">> >>
       /\ IF out = "ok"
            THEN pc' = "git_push" /\ UNCHANGED <<result, error>>
            ELSE Fail(IF out = "add_failed" THEN "git_add" ELSE "git_commit_unstaged")
       /\ history' = IF out = "ok" THEN Append(history, "unstaged") ELSE history
  /\ UNCHANGED <<cli_vars, hmd_yml, local_sh, action, dirty, push_result, before,
                 attempts, remote_vars, proc_vars>>

\* git push --force {ssh_address}:{git_dir} HEAD; in git_push_dirty the
\* result is kept and the resets come first
git_push ==
  /\ pc = "git_push"
  /\ \E ok \in BOOLEAN :
       /\ ok => project_dir
       /\ Did("git_push", ok)
       /\ git_dir' = IF ok THEN history ELSE git_dir
       /\ IF dirty
            THEN /\ push_result' = IF ok THEN "ok" ELSE "failed"
                 /\ pc' = "git_reset_unstaged"
                 /\ UNCHANGED <<result, error>>
            ELSE /\ UNCHANGED push_result
                 /\ IF ok THEN pc' = "generate_pipeline_sh" /\ UNCHANGED <<result, error>>
                          ELSE Fail("git_push")
  /\ UNCHANGED <<local_vars, action, dirty, before, attempts,
                 work_tree, project_dir, log_writable, pipeline_pid, status_log,
                 out_log, proc_vars>>

\* git reset HEAD~1
git_reset_unstaged ==
  /\ pc = "git_reset_unstaged"
  /\ \E ok \in BOOLEAN :
       /\ ok => HasParent
       /\ exec_verbose("git_reset_unstaged", ok, "git_reset_staged")
       /\ history' = IF ok THEN DropHead(history) ELSE history
  /\ UNCHANGED <<cli_vars, hmd_yml, local_sh, action, dirty, push_result, before,
                 attempts, remote_vars, proc_vars>>

\* what git_push_dirty returns once both resets succeeded: push_result?
PushResultRaised == push_result = "failed"

\* git reset HEAD~1 --soft; then push_result?
git_reset_staged ==
  /\ pc = "git_reset_staged"
  /\ \E ok \in BOOLEAN :
       /\ ok => HasParent
       /\ Did("git_reset_staged", ok)
       /\ history' = IF ok THEN DropHead(history) ELSE history
       /\ IF ~ok THEN Fail("git_reset_staged")
          ELSE IF PushResultRaised THEN Fail("git_push")
          ELSE pc' = "generate_pipeline_sh" /\ UNCHANGED <<result, error>>
  /\ UNCHANGED <<cli_vars, hmd_yml, local_sh, action, dirty, push_result, before,
                 attempts, remote_vars, proc_vars>>

\* fs::write(PIPELINE_SH, script)
generate_pipeline_sh_step ==
  /\ pc = "generate_pipeline_sh"
  /\ \E ok \in BOOLEAN :
       /\ exec_verbose("generate_pipeline_sh", ok, "upload")
       /\ local_sh' = IF ok THEN generate_pipeline_sh(hmd_yml) ELSE local_sh
  /\ UNCHANGED <<cli_vars, hmd_yml, history, action, dirty, push_result, before,
                 attempts, remote_vars, proc_vars>>

\* scp {artifacts} pipeline.sh {ssh_address}:{work_tree}
\* scp copies every source it can and ends with a non-zero status when one of
\* them failed: a failed upload has either left the remote script as it was
\* or replaced it already
upload ==
  /\ pc = "upload"
  /\ \E ok, copied \in BOOLEAN :
       /\ ok => copied
       /\ copied => project_dir
       /\ exec_verbose("upload", ok, "remove_file")
       /\ work_tree' = IF copied THEN [work_tree EXCEPT !.pipeline_sh = local_sh]
                                 ELSE work_tree
  /\ UNCHANGED <<local_vars, action, dirty, push_result, before, attempts,
                 git_dir, project_dir, log_writable, pipeline_pid,
                 status_log, out_log, proc_vars>>

\* fs::remove_file(PIPELINE_SH)
remove_file ==
  /\ pc = "remove_file"
  /\ \E ok \in BOOLEAN :
       /\ exec_verbose("remove_file", ok, "run_pipeline")
       /\ local_sh' = IF ok THEN NoFile ELSE local_sh
  /\ UNCHANGED <<cli_vars, hmd_yml, history, action, dirty, push_result, before,
                 attempts, remote_vars, proc_vars>>

\* run_pipeline: git_branch()?, then the ssh session is started
run_pipeline ==
  /\ pc = "run_pipeline"
  /\ \E ok \in BOOLEAN : exec_verbose("ssh", ok, "kill_and_wait")
  /\ UNCHANGED <<local_vars, action, dirty, push_result, before, attempts,
                 remote_vars, proc_vars>>

\* launch(): Command::Restart, restart_pipeline up to the ssh session
StartRestart ==
  /\ next_pid <= MaxLaunches
  /\ Begin("Restart", FALSE, "restart_pipeline")
  /\ UNCHANGED <<local_vars, remote_vars, proc_vars>>

restart_pipeline ==
  /\ pc = "restart_pipeline"
  /\ \E ok \in BOOLEAN : exec_verbose("ssh", ok, "kill_and_wait")
  /\ UNCHANGED <<local_vars, action, dirty, push_result, before, attempts,
                 remote_vars, proc_vars>>

\* launch(): Command::Stop
StartStop ==
  /\ Begin("Stop", FALSE, "stop")
  /\ UNCHANGED <<local_vars, remote_vars, proc_vars>>

stop ==
  /\ pc = "stop"
  /\ \E ok \in BOOLEAN : exec_verbose("ssh", ok, "kill_and_wait")
  /\ UNCHANGED <<local_vars, action, dirty, push_result, before, attempts,
                 remote_vars, proc_vars>>

\* launch(): Command::Remove
StartRemove ==
  /\ Begin("Remove", FALSE, "remove")
  /\ UNCHANGED <<local_vars, remote_vars, proc_vars>>

remove ==
  /\ pc = "remove"
  /\ \E ok \in BOOLEAN : exec_verbose("ssh", ok, "kill_and_wait")
  /\ UNCHANGED <<local_vars, action, dirty, push_result, before, attempts,
                 remote_vars, proc_vars>>

\* ------------------------------------------------- the remote command lines

\* `cat {pipeline_pid}`: the recorded pid, nothing when the file is missing
RecordedPid == IF project_dir THEN pipeline_pid ELSE NoPid

\* pkill without -P: the process pid itself
KillTargets_Self(pid) ==
  IF pid # NoPid /\ procs[pid].live THEN {pid} ELSE {}

\* pkill -SIGINT -P pid: the processes whose parent is pid
KillTargets(pid) ==
  IF pid # NoPid /\ procs[pid].live /\ procs[pid].child # "none" THEN {pid} ELSE {}

\* a Restart line that checks out like Deploy's
RemoteNext_RestartCheckout(step, ok) ==
  CASE step = "kill_and_wait" ->
         (CASE action = "Deploy"  -> "checkout"
            [] action = "Restart" -> "checkout"
            [] action = "Stop"    -> "exit"
            [] action = "Remove"  -> "rm")
    [] step = "checkout" -> "launch"
    [] step = "launch"   -> "exit"
    [] step = "rm"       -> "exit"

\* a Deploy line with the launch put before the checkout
RemoteNext_LaunchFirst(step, ok) ==
  CASE step = "kill_and_wait" ->
         (CASE action = "Deploy"  -> "launch"
            [] action = "Restart" -> "launch"
            [] action = "Stop"    -> "exit"
            [] action = "Remove"  -> "rm")
    [] step = "launch"   -> IF action = "Deploy" THEN "checkout" ELSE "exit"
    [] step = "checkout" -> "exit"
    [] step = "rm"       -> "exit"

\* the commands of one remote line are joined with `;`: the next one runs
\* whatever the status of the one before
RemoteNext(step, ok) ==
  CASE step = "kill_and_wait" ->
         (CASE action = "Deploy"  -> "checkout"
            [] action = "Restart" -> "launch"
            [] action = "Stop"    -> "exit"
            [] action = "Remove"  -> "rm")
    [] step = "checkout" -> "launch"
    [] step = "launch"   -> "exit"
    [] step = "rm"       -> "exit"

\* the session's exit status is that of its last command; exec_verbose turns
\* it into the action's result
RemoteGoto(step, ok) ==
  IF RemoteNext(step, ok) = "exit"
    THEN IF ok THEN Succeed ELSE Fail(step)
    ELSE pc' = RemoteNext(step, ok) /\ UNCHANGED <<result, error>>

\* while pkill -SIGINT -P `cat {pipeline_pid}` 2>/dev/null; do sleep 1; done;
\* one turn of the loop: pkill succeeds iff it signalled a process.  A child
\* that was signalled and has not left yet is signalled again on the next
\* turn; MaxAttempts turns of that kind are followed.
kill_and_wait_cmd ==
  /\ pc = "kill_and_wait"
  /\ LET hit == KillTargets(RecordedPid) IN
       /\ attempts' = attempts + 1
       /\ IF hit # {}
            THEN \* sleep 1, then the next turn
                 /\ \A p \in hit : procs[p].child = "signalled" => attempts < MaxAttempts
                 /\ procs' = [p \in Pids |->
                                IF p \in hit THEN [procs[p] EXCEPT !.child = "signalled"]
                                             ELSE procs[p]]
                 /\ UNCHANGED <<pc, result, error, steps>>
            ELSE \* the loop ends, with status zero
                 /\ Did("kill_and_wait", TRUE)
                 /\ RemoteGoto("kill_and_wait", TRUE)
                 /\ UNCHANGED procs
  /\ UNCHANGED <<local_vars, action, dirty, push_result, before,
                 remote_vars, trace, next_pid>>

\* git --git-dir={git_dir} --work-tree=. checkout --force {branch};
checkout ==
  /\ pc = "checkout"
  /\ \E ok \in BOOLEAN :
       /\ ok => project_dir /\ git_dir # NoRev
       /\ Did("checkout", ok)
       /\ work_tree' = IF ok THEN [work_tree EXCEPT !.rev = git_dir] ELSE work_tree
       /\ RemoteGoto("checkout", ok)
  /\ UNCHANGED <<local_vars, action, dirty, push_result, before, attempts,
                 git_dir, project_dir, log_writable, pipeline_pid,
                 status_log, out_log, proc_vars>>

\* bash {pipeline_sh}: the process a launch creates
Launched(script) ==
  IF script = NoFile
    THEN [NoProc EXCEPT !.exit = 127]      \* bash: pipeline.sh: No such file
    ELSE [ live |-> TRUE, script |-> script, block |-> 1, pc |-> "run",
           child |-> "none", exit |-> -1 ]

\* nohup bash {pipeline_sh} > {out_log} 2>&1 & echo $! > {pipeline_pid};
\* after a failed cd the line runs in the home directory, where there is no
\* pipeline.sh, and the pid goes to a file outside the project.  The process
\* table keeps what an exited script left (its status, what it did) until
\* the next launch.
launch ==
  /\ pc = "launch"
  /\ Did("launch", TRUE)
  /\ procs' = [p \in Pids |->
                 IF p = next_pid
                   THEN Launched(IF project_dir THEN work_tree.pipeline_sh ELSE NoFile)
                 ELSE IF procs[p].live THEN procs[p] ELSE NoProc]
  /\ trace' = [p \in Pids |-> IF procs[p].live THEN trace[p] ELSE <<>>]
  /\ next_pid' = next_pid + 1
  /\ pipeline_pid' = IF project_dir THEN next_pid ELSE pipeline_pid
  /\ out_log' = IF project_dir THEN next_pid ELSE out_log
  /\ RemoteGoto("launch", TRUE)
  /\ UNCHANGED <<local_vars, action, dirty, push_result, before, attempts,
                 git_dir, work_tree, project_dir, log_writable, status_log>>

\* rm -rf {project_dir}
rm ==
  /\ pc = "rm"
  /\ Did("rm", TRUE)
  /\ project_dir' = FALSE
  /\ git_dir' = NoRev
  /\ work_tree' = [rev |-> NoRev, pipeline_sh |-> NoFile]
  /\ pipeline_pid' = NoPid
  /\ status_log' = <<>>
  /\ out_log' = NoPid
  /\ RemoteGoto("rm", TRUE)
  /\ UNCHANGED <<local_vars, action, dirty, push_result, before, attempts,
                 log_writable, proc_vars>>

\* ------------------------------------------------- status and log

\* launch(): Command::Status / Command::Log
StartFollow ==
  /\ \E a \in {"Status", "Log"} : Begin(a, FALSE, "follow_start")
  /\ UNCHANGED <<local_vars, remote_vars, proc_vars>>

\* ssh: tail -f {status_log}  /  tail -n 50 -f {out_log}
\* tail ends at once when the session or the file cannot be opened
follow ==
  /\ pc = "follow_start"
  /\ \E ok \in BOOLEAN :
       /\ ok => project_dir
       /\ IF ok THEN pc' = "following" /\ UNCHANGED <<result, error, steps>>
                ELSE Did("tail", FALSE) /\ Fail("tail")
  /\ UNCHANGED <<local_vars, action, dirty, push_result, before, attempts,
                 remote_vars, proc_vars>>

\* the operator interrupts the follow session from the terminal
Interrupt ==
  /\ pc = "following"
  /\ pc' = "done" /\ result' = "interrupted" /\ error' = "tail"
  /\ Did("tail", FALSE)
  /\ UNCHANGED <<local_vars, action, dirty, push_result, before, attempts,
                 remote_vars, proc_vars>>

\* ------------------------------------------------- specification

Init ==
  /\ hmd_yml \in StageLists
  /\ history \in { [k \in 1..n |-> "c"] : n \in 0..(MaxHistory - 2) }
  /\ local_sh = NoFile
  /\ action = "none" /\ dirty = FALSE /\ pc = "idle"
  /\ result = "none" /\ error = "none" /\ push_result = "none"
  /\ steps = <<>>
  /\ before = [history |-> history, pipeline_pid |-> NoPid, after_stop |-> FALSE]
  /\ attempts = 0
  /\ git_dir = NoRev
  /\ work_tree = [rev |-> NoRev, pipeline_sh |-> NoFile]
  /\ project_dir = TRUE
  /\ log_writable \in BOOLEAN
  /\ pipeline_pid = NoPid
  /\ status_log = <<>>
  /\ out_log = NoPid
  /\ procs = [p \in Pids |-> NoProc]
  /\ trace = [p \in Pids |-> <<>>]
  /\ next_pid = 1
  /\ invocation = DeployInvocation
  /\ resolved = launch_env(invocation)

Follow == StartFollow \/ follow \/ Interrupt

Lifecycle ==
  \/ StartRestart \/ restart_pipeline
  \/ StartStop \/ stop
  \/ StartRemove \/ remove
  \/ kill_and_wait_cmd \/ checkout \/ launch \/ rm

DeployClean ==
  \/ StartDeploy(FALSE)
  \/ git_push \/ generate_pipeline_sh_step \/ upload \/ remove_file \/ run_pipeline

Pipeline ==
  \E p \in Pids : ScriptStep(p) \/ ChildExit(p) \/ SignalledChildExit(p)

\* the lifecycle of the pipeline process: deploy (without --dirty), restart,
\* stop, remove, status and log, against the running pipeline scripts
Next == DeployClean \/ Lifecycle \/ Follow \/ Pipeline

Spec == Init /\ [][Next]_vars

\* the first pipeline of a project: the deploy that launches it, with or
\* without --dirty, and the stop, status and log actions against it
FirstDeploy == next_pid = 1 /\ \E d \in BOOLEAN : StartDeploy(d)

FirstNext ==
  \/ FirstDeploy
  \/ git_commit_staged \/ git_commit_unstaged
  \/ git_reset_unstaged \/ git_reset_staged
  \/ git_push \/ generate_pipeline_sh_step \/ upload \/ remove_file \/ run_pipeline
  \/ StartStop \/ stop
  \/ kill_and_wait_cmd \/ checkout \/ launch
  \/ Follow
  \/ Pipeline

FirstSpec == Init /\ [][FirstNext]_vars

\* what keeps running whatever the operator does: a script goes on to its
\* next command, a started action goes on to its next step, and a stage
\* command that was interrupted leaves.  Nothing makes the operator start an
\* action or interrupt a follow session, nor a stage command end by itself.
Continue ==
  \/ git_commit_staged \/ git_commit_unstaged
  \/ git_reset_unstaged \/ git_reset_staged
  \/ git_push \/ generate_pipeline_sh_step \/ upload \/ remove_file \/ run_pipeline
  \/ stop \/ follow
  \/ kill_and_wait_cmd \/ checkout \/ launch

Fairness ==
  /\ WF_vars(Continue)
  /\ \A p \in Pids : WF_vars(ScriptStep(p)) /\ WF_vars(SignalledChildExit(p))

FairFirstSpec == FirstSpec /\ Fairness

\* launch(): the command line is parsed and the project, the address and
\* the remote paths are resolved.  After the deploy a behaviour starts from,
\* any command is launched, in any state of the local files
Resolve ==
  /\ invocation = DeployInvocation
  /\ \E inv \in Invocations :
       /\ invocation' = inv
       /\ resolved' = launch_env(inv)
  /\ UNCHANGED <<hmd_yml, history, local_sh, op_vars, remote_vars, proc_vars>>

\* launch() of the same command once more, with another --project
ResolveProject ==
  /\ \E project \in {None(<<>>)} \cup { Some(n) : n \in ProjectNames } :
       /\ invocation' = [invocation EXCEPT !.project = project]
       /\ resolved' = launch_env(invocation')
  /\ UNCHANGED <<hmd_yml, history, local_sh, op_vars, remote_vars, proc_vars>>

\* deploy() up to the compiled script, for a descriptor with any stage map
Compile ==
  /\ local_sh = NoFile
  /\ \E stages \in DescriptorStageLists :
       /\ hmd_yml' = stages
       /\ local_sh' = generate_pipeline_sh(stages)
  /\ UNCHANGED <<cli_vars, history, op_vars, remote_vars, proc_vars>>

\* init(): the remote directories and the bare repository, then hmd.yml,
\* then ~/.hmd/config.yml when it cannot be read.  A failure of the remote
\* session returns before anything is written
init ==
  /\ invocation.command = "Init"
  /\ resolved.ok /\ resolved = launch_env(invocation)
  /\ \E ok \in BOOLEAN :
       /\ ok => project_dir
       /\ invocation' =
            IF ok
              THEN [invocation EXCEPT
                      !.hmd_yml = write_hmd_yml(resolved.env.project,
                                                resolved.env.ssh_address, @),
                      !.config = IF read_hmd_config_yml(@).some
                                   THEN @ ELSE Some(resolved.env.ssh_address)]
              ELSE invocation
  /\ UNCHANGED <<resolved, hmd_yml, history, local_sh, op_vars, remote_vars,
                 proc_vars>>

\* one operator's machine, before any pipeline exists
LaunchInit ==
  /\ Init
  /\ hmd_yml = << <<"build">> >> /\ history = <<>> /\ log_writable

LaunchNext == Resolve \/ ResolveProject \/ Compile \/ init

\* what launch() computes before the command's function runs, for every
\* command line and every state of hmd.yml and ~/.hmd/config.yml
LaunchSpec == LaunchInit /\ [][LaunchNext]_vars

\* the operator edits the stage map of hmd.yml between two actions; the next
\* deploy reads the file again
Edit ==
  /\ Idle
  /\ \E stages \in StageLists :
       /\ stages # hmd_yml
       /\ hmd_yml' = stages
  /\ UNCHANGED <<cli_vars, history, local_sh, op_vars, remote_vars, proc_vars>>

\* one commit, pushed by every deploy
RedeployInit ==
  /\ Init
  /\ hmd_yml = << <<"build">> >> /\ history = <<"c">> /\ log_writable

RedeployNext ==
  \/ DeployClean \/ kill_and_wait_cmd \/ checkout \/ launch
  \/ Edit
  \/ Pipeline

\* deploy after deploy of a project whose descriptor changes in between,
\* against the pipeline scripts the earlier deploys launched
RedeploySpec == RedeployInit /\ [][RedeployNext]_vars

\* ------------------------------------------------- what the claims read

\* the current action has finished step `step` with outcome `ok`
InSteps(step, ok) == \E k \in 1..Len(steps) : steps[k] = <<step, ok>>

\* the first place of `step` in the current action's steps, 0 when it has none
StepAt(step) ==
  IF \E k \in 1..Len(steps) : steps[k][1] = step
    THEN CHOOSE k \in 1..Len(steps) :
           steps[k][1] = step /\ \A j \in 1..(k - 1) : steps[j][1] # step
    ELSE 0

Ended(a) == action = a /\ pc = "done"

\* the recorded pid is that of a script with a stage command running
RecordedHasChild ==
  /\ RecordedPid # NoPid
  /\ procs[RecordedPid].live
  /\ procs[RecordedPid].child # "none"

\* ------------------------------------------------- C1

\* C1 (as claimed): whatever Deploy, Restart, Stop and Remove actions were
\* issued, one at a time, at most one pipeline script of the project is live;
\* in particular none is live when a Deploy or Restart has launched the next.
C1_AtMostOneLive == Cardinality(LivePids) <= 1

\* ------------------------------------------------- C2

CmdEvents(t) == SelectSeq(t, LAMBDA e : e[1] = "cmd")

\* C2: every script visits the stages in the order of the descriptor, and the
\* command of the stage at place k+1 is invoked only after the complete hook
\* was invoked with the index of the stage at place k.
C2_StagesInOrder ==
  \A p \in Pids :
    LET t == trace[p]
        c == CmdEvents(t)
    IN /\ Len(c) <= Len(hmd_yml)
       /\ \A k \in 1..Len(c) : c[k] = <<"cmd", CmdOf(hmd_yml[k])>>
       /\ \A j \in 1..Len(t) : \A k \in 2..Len(hmd_yml) :
            t[j] = <<"cmd", CmdOf(hmd_yml[k])>>
              => \E h \in 1..(j - 1) : t[h] = <<"completed", k - 2>>

\* a script has invoked the command of its second stage
C2_Witness ==
  \E p \in Pids :
    /\ Len(hmd_yml) = 2
    /\ \E j \in 1..Len(trace[p]) : trace[p][j] = <<"cmd", CmdOf(hmd_yml[2])>>

\* ------------------------------------------------- C3

\* C3: when the command of the stage with index i has failed, the next thing
\* the script does is panic(i), then it exits with a non-zero status, and it
\* does nothing after that: no hook, no command of a later stage.
C3_FailureStopsScript ==
  \A p \in Pids : \A j \in 1..Len(trace[p]) : \A i \in 0..(Len(hmd_yml) - 1) :
    LET t == trace[p] IN
    t[j] = <<"cmd_failed", i>> =>
      /\ Len(t) <= j + 2
      /\ Len(t) > j =>
           /\ Len(t) = j + 2
           /\ t[j + 1] = <<"failed", i>>
           /\ t[j + 2][1] = "exit" /\ t[j + 2][2] # 0
           /\ ~procs[p].live /\ procs[p].exit # 0

\* the command of the first of two stages failed and the script has exited
C3_Witness ==
  \E p \in Pids :
    /\ Len(hmd_yml) = 2
    /\ \E j \in 1..Len(trace[p]) : trace[p][j] = <<"cmd_failed", 0>>
    /\ ~procs[p].live

\* ------------------------------------------------- C4

\* C4 (as claimed): a Deploy whose remote checkout failed has launched no
\* script, has left the pid file as it was and is reported as failed.
C4_CheckoutFailureAborts ==
  (Ended("Deploy") /\ InSteps("checkout", FALSE)) =>
    /\ ~InSteps("launch", TRUE)
    /\ pipeline_pid = before.pipeline_pid
    /\ result = "failed"

\* ------------------------------------------------- C5

\* C5 (as claimed): when Stop has returned successfully no pipeline script of
\* the project is live.
C5_StopLeavesNoneLive ==
  (Ended("Stop") /\ result = "ok") => LivePids = {}

\* ------------------------------------------------- C6

DirtyDeployPushFailed ==
  /\ Ended("Deploy") /\ dirty
  /\ InSteps("git_commit_staged", TRUE) /\ InSteps("git_commit_unstaged", TRUE)
  /\ InSteps("git_push", FALSE)
  /\ InSteps("git_reset_unstaged", TRUE) /\ InSteps("git_reset_staged", TRUE)

\* C6: a dirty Deploy whose push failed while both synthetic commits and both
\* resets succeeded leaves the local history (commit count and HEAD) as it
\* was before the action, and the error it reports is the push failure.
C6_PushFailureRestoresHistory ==
  DirtyDeployPushFailed =>
    /\ history = before.history
    /\ result = "failed"
    /\ error = "git_push"

\* such a Deploy has ended, on a branch that had commits before it
C6_Witness == DirtyDeployPushFailed /\ Len(before.history) >= 1

\* ------------------------------------------------- C7

\* C7 (as claimed): whenever a dirty Deploy ends with a failure, the local
\* branch has as many commits as it had before the action.
C7_FailedDirtyLeavesNoCommit ==
  (Ended("Deploy") /\ dirty /\ result = "failed") =>
    Len(history) = Len(before.history)

\* ------------------------------------------------- C8

\* one turn of the kill-and-wait loop: a signal attempt
SignalAttempt == pc = "kill_and_wait" /\ attempts' = attempts + 1

\* C8: a signal attempt that finds no child of the recorded pid (no pid file,
\* a dead pid, a script with no command running) ends the loop at once and
\* does not fail the action, so a loop started on such a pid makes exactly
\* one attempt; the loop is left only by such an attempt; and when every
\* signalled child eventually exits the loop always ends.
C8_KillAndWaitEnds ==
  /\ [][ (SignalAttempt /\ ~RecordedHasChild) =>
           /\ pc' # "kill_and_wait"
           /\ result' # "failed"
           /\ steps' = Append(steps, <<"kill_and_wait", TRUE>>)
           /\ UNCHANGED procs ]_vars
  /\ [][ (pc = "kill_and_wait" /\ pc' # "kill_and_wait") =>
           (SignalAttempt /\ ~RecordedHasChild) ]_vars
  /\ []((InSteps("kill_and_wait", TRUE) /\ before.pipeline_pid = NoPid)
          => attempts = 1)
  /\ ((pc = "kill_and_wait") ~> (pc # "kill_and_wait"))

\* Stop has ended after one attempt on the pid of a script that was live with
\* no command running
C8_Witness ==
  /\ Ended("Stop") /\ result = "ok" /\ attempts = 1
  /\ pipeline_pid # NoPid /\ procs[pipeline_pid].live

\* ------------------------------------------------- C9

\* C9: in a Deploy the script is launched only after the upload, the
\* kill-and-wait loop and the checkout have ended, and the checkout starts
\* only after the kill-and-wait loop has ended; in a Restart the script is
\* launched only after the kill-and-wait loop has ended.
C9_StepOrder ==
  LET Precedes(a, b) == StepAt(b) # 0 => (StepAt(a) # 0 /\ StepAt(a) < StepAt(b))
  IN /\ action = "Deploy" =>
          /\ InSteps("upload", TRUE) \/ StepAt("launch") = 0
          /\ Precedes("upload", "launch")
          /\ Precedes("upload", "kill_and_wait")
          /\ Precedes("kill_and_wait", "checkout")
          /\ Precedes("kill_and_wait", "launch")
          /\ Precedes("checkout", "launch")
          /\ pc \in {"kill_and_wait", "checkout"} => pipeline_pid = before.pipeline_pid
     /\ action = "Restart" =>
          /\ Precedes("kill_and_wait", "launch")
          /\ pc = "kill_and_wait" => pipeline_pid = before.pipeline_pid

\* a Deploy over an existing pipeline that had to signal a running command
\* has checked out and launched
C9_Witness ==
  /\ Ended("Deploy") /\ result = "ok"
  /\ before.pipeline_pid # NoPid /\ attempts >= 2
  /\ InSteps("checkout", TRUE) /\ InSteps("launch", TRUE)

\* ------------------------------------------------- C10

\* the script the pid file names has exited
WatchedExited == pipeline_pid # NoPid /\ ~procs[pipeline_pid].live

\* C10 (as claimed): a Status or Log session that is following while the
\* script named by the pid file has exited eventually stops following.
C10_FollowEndsWithPipeline ==
  []((pc = "following" /\ WatchedExited) => <>(pc # "following"))

\* ------------------------------------------------- C11

\* the entries of status.log that the script with pid p wrote
WrittenBy(p) == { k \in 1..Len(status_log) : status_log[k][1] = p }

\* C11 (as claimed): the entries one pipeline run wrote to the status log are
\* contiguous: no entry of another run lies between two entries of a run.
C11_ContiguousSessions ==
  \A p \in Pids : \A a, b \in WrittenBy(p) : \A k \in a..b : k \in WrittenBy(p)

\* ------------------------------------------------- C12

\* hmd.yml is present and loadable
Loadable(file) ==
  file.exists /\ file.parses /\ file.project # <<>> /\ Len(file.stages) >= 1

\* the project the claimed order gives an invocation: --project, else the
\* loadable descriptor's project, else for Init the working directory's name
ClaimedProject(inv, cwd_too) ==
  IF inv.project.some THEN inv.project
  ELSE IF Loadable(inv.hmd_yml) THEN Some(inv.hmd_yml.project)
  ELSE IF cwd_too THEN inv.current_dir
  ELSE None(<<>>)

\* launch() resolved the invocation to this option of a project
GotProject(want) ==
  IF want.some
    THEN /\ resolved.error # PROJECT_NOT_PROVIDED
         /\ resolved.ok => resolved.env.project = want.v
    ELSE ~resolved.ok /\ resolved.error = PROJECT_NOT_PROVIDED

\* C12 (as claimed): Stop, Restart, Status, Log and Remove take the project
\* from --project, else from the loadable local descriptor, else fail with
\* "project not provided"; Init alone falls back further to the name of the
\* working directory.
C12_ProjectResolution ==
  /\ invocation.command \in {"Stop", "Restart", "Status", "Log", "Remove"}
       => GotProject(ClaimedProject(invocation, FALSE))
  /\ invocation.command = "Init"
       => GotProject(ClaimedProject(invocation, TRUE))

\* ------------------------------------------------- C13

\* the address the claimed order gives an invocation
ClaimedAddress(inv) ==
  IF inv.ssh_address.some THEN inv.ssh_address
  ELSE IF Loadable(inv.hmd_yml) THEN Some(inv.hmd_yml.ssh_address)
  ELSE inv.config

\* the commands that resolve the address with get_ssh_address, once their
\* project is resolved
AddressResolved ==
  /\ invocation.command \in Commands \ {"Deploy"}
  /\ resolved.error # PROJECT_NOT_PROVIDED

\* C13: the address is --ssh, else the ssh_address of the local descriptor,
\* else the ssh_address of ~/.hmd/config.yml, else the command fails with
\* "SSH address not provided"; a local descriptor that is missing, does not
\* parse, has an empty project or has no stage counts as absent.
C13_AddressResolution ==
  AddressResolved =>
    LET want == ClaimedAddress(invocation) IN
    IF want.some
      THEN resolved.ok /\ resolved.env.ssh_address = want.v
      ELSE ~resolved.ok /\ resolved.error = SSH_ADDRESS_NOT_PROVIDED

\* a descriptor with an empty project is there, holding an address, and the
\* address came from the global configuration
C13_Witness ==
  /\ AddressResolved /\ invocation.command = "Stop"
  /\ ~invocation.ssh_address.some
  /\ invocation.hmd_yml.exists /\ invocation.hmd_yml.parses
  /\ invocation.hmd_yml.project = <<>>
  /\ resolved.ok /\ resolved.env.ssh_address = "global"

\* ------------------------------------------------- C14

\* the files the layout of a resolved project names
LayoutFiles(r) == { FileOf(path) : path \in Layout(r.env) }

C15_RestartFrame ==
  /\ [][ action' = "Restart" =>
           UNCHANGED <<git_dir, work_tree, project_dir, hmd_yml, history, local_sh>> ]_vars
  /\ [](action = "Restart" =>
          \A k \in 1..Len(steps) :
            steps[k][1] \in {"ssh", "kill_and_wait", "launch"})

\* a Restart over an existing pipeline has launched the deployed script anew
C15_Witness ==
  /\ Ended("Restart") /\ result = "ok" /\ InSteps("launch", TRUE)
  /\ before.pipeline_pid # NoPid
  /\ pipeline_pid # before.pipeline_pid /\ out_log = pipeline_pid
  /\ work_tree.pipeline_sh # NoFile
  /\ procs[pipeline_pid].script = work_tree.pipeline_sh

\* ------------------------------------------------- C16

\* the script with pid p recorded event e at some place before place j
Earlier(p, e, j) == \E h \in 1..(j - 1) : trace[p][h] = e

\* C16: in every block run {i}, the command and complete {i} are chained
\* with &&.  When the run hook fails (the status log cannot be written) the
\* command is not started and the script goes through panic {i} to a
\* non-zero exit; when the command fails complete {i} is not invoked; the
\* end of the stage is announced only after the run hook wrote its entry,
\* the command succeeded and the complete hook wrote its entry.
C16_ShortCircuit ==
  \A p \in Pids :
    LET t == trace[p] IN
    /\ ~CanLog =>
         /\ \A j \in 1..Len(t) : t[j][1] \notin {"cmd", "completed", "end"}
         /\ Len(t) >= 2 =>
              /\ t = << <<"started", 0>>, <<"failed", 0>>, <<"exit", PanicExit>> >>
              /\ ~procs[p].live /\ procs[p].exit # 0
    /\ \A j \in 1..Len(t) : \A i \in 0..(Len(hmd_yml) - 1) :
         /\ t[j] = <<"cmd_failed", i>> =>
              \A k \in 1..Len(t) : t[k] # <<"completed", i>>
         /\ t[j] = <<"end", i>> =>
              /\ \E k \in 1..Len(status_log) : status_log[k] = <<p, "started", i>>
              /\ Earlier(p, <<"cmd", CmdOf(hmd_yml[i + 1])>>, j)
              /\ Earlier(p, <<"cmd_ok", i>>, j)
              /\ t[j - 1] = <<"completed", i>>
              /\ \E k \in 1..Len(status_log) : status_log[k] = <<p, "completed", i>>

\* the status log is not writable and the script has left through panic
C16_Witness ==
  \E p \in Pids :
    /\ ~CanLog
    /\ trace[p] = << <<"started", 0>>, <<"failed", 0>>, <<"exit", PanicExit>> >>

\* ------------------------------------------------- C17

\* the steps of deploy() that compile, upload and run the pipeline
ForwardSteps ==
  {"generate_pipeline_sh", "upload", "remove_file", "ssh", "kill_and_wait",
   "checkout", "launch"}

\* the steps deploy() takes on the operator's machine, each returned with `?`
LocalSteps ==
  {"git_push", "generate_pipeline_sh", "upload", "remove_file", "ssh"}

\* C17: in a Deploy, once the push, the compilation, the upload, the removal
\* of the local script or the start of the remote session has failed, none
\* of the steps that compile, upload or run the pipeline follows, the action
\* ends as failed, and the pipeline that was running is not signalled, no
\* script is launched and the pid file is as it was.
C17_FailedStepEndsDeploy ==
  action = "Deploy" =>
    \A k \in 1..Len(steps) :
      (steps[k][2] = FALSE /\ steps[k][1] \in LocalSteps) =>
        /\ \A j \in (k + 1)..Len(steps) : steps[j][1] \notin ForwardSteps
        /\ pc \notin ForwardSteps /\ pc # "run_pipeline"
        /\ pc = "done" => result = "failed"
        /\ attempts = 0
        /\ pipeline_pid = before.pipeline_pid

\* the upload of a Deploy failed while the project's pipeline was running a
\* stage command, and the action has ended
C17_Witness ==
  /\ Ended("Deploy") /\ InSteps("upload", FALSE)
  /\ pipeline_pid # NoPid
  /\ procs[pipeline_pid].live /\ procs[pipeline_pid].child = "running"

\* ------------------------------------------------- C19

\* the current action is a Stop that began right after a successful Stop
StopAgain == action = "Stop" /\ before.after_stop

\* C19 (as claimed): in a Stop that follows a successful Stop, a signal
\* attempt signals no process, leaves the process table, the pid file, the
\* status log and the output log as they are, and ends the Stop as a success.
C19_StopIdempotent ==
  [][ (StopAgain /\ SignalAttempt) =>
        /\ UNCHANGED <<procs, pipeline_pid, status_log, out_log>>
        /\ pc' = "done" /\ result' = "ok" ]_vars

\* ------------------------------------------------- C20

\* C20 (as claimed): once kill-and-wait has signalled the command of a stage,
\* the script does not advance: whatever status the signalled command leaves
\* with, the script does not go on to complete {i} (and from there to the
\* next stage) but takes the panic branch.
C20_NoAdvanceAfterSignal ==
  [][ \A p \in Pids :
        (procs[p].child = "signalled" /\ procs'[p].child # "signalled")
          => procs'[p].pc = "panic" ]_vars

\* ------------------------------------------------- C18

\* C18 (as claimed): the stage-name array of a compiled script has one
\* element per stage, in the order of the descriptor, and the element at the
\* index a block passes to its hooks is the name of that block's stage.
C18_StagesArray ==
  local_sh # NoFile =>
    LET array == StagesArray(local_sh) IN
    /\ Len(array) = Len(hmd_yml)
    /\ Len(local_sh.pipeline) = Len(hmd_yml)
    /\ \A k \in 1..Len(local_sh.pipeline) :
         LET block == local_sh.pipeline[k] IN
         /\ block.i = k - 1
         /\ block.stage = hmd_yml[k] /\ block.cmd = CmdOf(hmd_yml[k])
         /\ block.i + 1 <= Len(array) /\ array[block.i + 1] = block.stage

\* a live pipeline process that executes the deployed script
RunsDeployed(p) == procs[p].live /\ procs[p].script = work_tree.pipeline_sh

\* C21: no step of a Deploy changes the deployed pipeline script or the
\* revision checked out in the remote work tree while a pipeline process
\* that executes that script is live
C21_NoChangeWhileLive ==
  [][ (action = "Deploy" /\ work_tree' # work_tree)
        => ~ \E p \in Pids : RunsDeployed(p) ]_vars

\* C22: when a Deploy has ended after its script was compiled, with success
\* or with the failure of a later step, pipeline.sh is no longer in the local
\* working directory
C22_LocalScriptRemoved ==
  (Ended("Deploy") /\ InSteps("generate_pipeline_sh", TRUE))
    => local_sh = NoFile

\* a descriptor the parser accepts, with at least one stage entry
HasStages(file) == file.exists /\ file.parses /\ file.stages # <<>>

\* C23: an Init that rewrites a descriptor holding at least one stage entry
\* leaves the stage list and the artifacts list as the file held them
C23_InitKeepsStages ==
  [][ ( /\ invocation.command = "Init"
        /\ invocation'.hmd_yml # invocation.hmd_yml
        /\ HasStages(invocation.hmd_yml) )
        => /\ invocation'.hmd_yml.stages = invocation.hmd_yml.stages
           /\ invocation'.hmd_yml.artifacts = invocation.hmd_yml.artifacts ]_vars

====
